---- MODULE Spec2Model ----
(***************************************************************************)
(* Voice-session transcript relay (src/livekit/agent.py and its twin       *)
(* src/AI_travel/backend/livekit_agent.py) and conversation history        *)
(* (src/AI_travel/Database/database.py).                                   *)
(*                                                                         *)
(* Python values are tagged records.  A string is a sequence of tokens;    *)
(* the token " " is whitespace, every other token is a visible character   *)
(* (identifiers and language tags are one-token strings).                  *)
(***************************************************************************)
EXTENDS Integers, Sequences, FiniteSets, TLC

(***************************************************************************)
(* Bounds of the model                                                     *)
(***************************************************************************)
\* background tasks the model keeps at a time (the code sets no limit)
MaxTasks == 2

(***************************************************************************)
(* Python scalars: None, str, and a non-string number                      *)
(***************************************************************************)
None_ == [t |-> "none", s |-> <<>>, n |-> 0]
Str(x) == [t |-> "str", s |-> x, n |-> 0]
Num(k) == [t |-> "int", s |-> <<>>, n |-> k]

\* Python truthiness of a scalar
Truthy(v) == \/ v.t = "str" /\ v.s # <<>>
             \/ v.t = "int" /\ v.n # 0

\* str.strip(): drop leading and trailing whitespace
RECURSIVE LStrip(_)
LStrip(s) == IF s = <<>> THEN <<>>
             ELSE IF Head(s) = " " THEN LStrip(Tail(s)) ELSE s

RECURSIVE RStrip(_)
RStrip(s) == IF s = <<>> THEN <<>>
             ELSE IF s[Len(s)] = " " THEN RStrip(SubSeq(s, 1, Len(s) - 1)) ELSE s

Strip(s) == RStrip(LStrip(s))

(***************************************************************************)
(* Sample texts and values                                                 *)
(***************************************************************************)
Empty == <<>>
Blank == <<" ">>
Hi == <<"h", "i">>
PadHi == <<" ", "h", "i", " ">>
Yo == <<"y", "o">>
PadYo == <<"y", "o", " ">>
Hey == <<"h", "e", "y">>
ObjRepr == <<"<", "o", "b", "j", ">">>
DictRepr == <<"{", "}">>

LangEn == <<"en-US">>
LangAr == <<"ar-SA">>
LangTa == <<"ta-IN">>

\* Result of a Python call: a returned value or a raised exception
Return(v) == [raised |-> FALSE, val |-> v]
Raise == [raised |-> TRUE, val |-> None_]

(***************************************************************************)
(* Speech-event payloads.  kind: "none" (None), "str" (plain string),      *)
(* "obj" (object with attributes), "dict" (mapping).  Attribute or key     *)
(* absent is None_, as getattr(.., None) and dict.get() make it.           *)
(*   alternatives: [t: "none" | "list" | "other", e: sequence of           *)
(*                  candidates]; a candidate is                            *)
(*                  [kind: "none" | "obj" | "dict", empty, text]           *)
(*   strv: what str(message) does, [raises, s]                             *)
(***************************************************************************)
NoAlt == [t |-> "none", e |-> <<>>]
AltList(e) == [t |-> "list", e |-> e]
AltOther == [t |-> "other", e |-> <<>>]

CandNone == [kind |-> "none", empty |-> TRUE, text |-> None_]
CandObj(v) == [kind |-> "obj", empty |-> FALSE, text |-> v]
CandDict(v) == [kind |-> "dict", empty |-> FALSE, text |-> v]
CandEmptyDict == [kind |-> "dict", empty |-> TRUE, text |-> None_]

NoLang == [language |-> None_, language_code |-> None_, detected_language |-> None_]
NoKeys == [text |-> None_, message |-> None_, content |-> None_]

MsgNone ==
  [kind |-> "none", s |-> <<>>, content |-> None_, alternatives |-> NoAlt,
   text |-> None_, keys |-> NoKeys, lattrs |-> NoLang, lkeys |-> NoLang,
   strv |-> [raises |-> FALSE, s |-> <<"N", "o", "n", "e">>]]

MsgStr(x) ==
  [MsgNone EXCEPT !.kind = "str", !.s = x, !.strv = [raises |-> FALSE, s |-> x]]

MsgObj(c, a, t, l, sv) ==
  [MsgNone EXCEPT !.kind = "obj", !.content = c, !.alternatives = a,
                  !.text = t, !.lattrs = l, !.strv = sv]

MsgDict(k, l) ==
  [MsgNone EXCEPT !.kind = "dict", !.keys = k, !.lkeys = l,
                  !.strv = [raises |-> FALSE, s |-> DictRepr]]

\* Python truthiness of an alternatives candidate
CandTruthy(c) == \/ c.kind = "obj"
                 \/ c.kind = "dict" /\ ~c.empty

(***************************************************************************)
(* VoiceAssistant._extract_text                                            *)
(***************************************************************************)
\* the final fallback: try: return str(message).strip() / except: None
str_fallback(message) ==
  IF message.strv.raises THEN Return(None_)
  ELSE Return(Str(Strip(message.strv.s)))

\* if isinstance(message, dict): for key in ("text", "message", "content")
RECURSIVE dict_lookup(_, _)
dict_lookup(message, ks) ==
  IF ks = <<>> THEN str_fallback(message)
  ELSE LET value == message.keys[Head(ks)]
       IN IF value.t = "str" /\ Strip(value.s) # <<>>
          THEN Return(Str(Strip(value.s)))
          ELSE dict_lookup(message, Tail(ks))

dict_fallback(message) ==
  IF message.kind = "dict"
  THEN dict_lookup(message, <<"text", "message", "content">>)
  ELSE str_fallback(message)

\* variant: the text attribute is returned as it is, not trimmed
text_attr_step_untrimmed(message) ==
  LET text_attr == message.text
  IN IF text_attr.t = "str" /\ Strip(text_attr.s) # <<>>
     THEN Return(text_attr)
     ELSE dict_fallback(message)

\* text_attr = getattr(message, "text", None)
text_attr_step(message) ==
  LET text_attr == message.text
  IN IF text_attr.t = "str" /\ Strip(text_attr.s) # <<>>
     THEN Return(Str(Strip(text_attr.s)))
     ELSE dict_fallback(message)

\* alternatives = getattr(message, "alternatives", None)
alternatives_step(message) ==
  LET alternatives == message.alternatives
      alt_truthy == \/ alternatives.t = "other"
                    \/ alternatives.t = "list" /\ alternatives.e # <<>>
      first == IF alternatives.t = "list" /\ alternatives.e # <<>>
               THEN alternatives.e[1] ELSE CandNone
      attr_value == IF first.kind = "obj" THEN first.text ELSE None_
      text_value == IF ~Truthy(attr_value) /\ first.kind = "dict"
                    THEN first.text ELSE attr_value
  IN IF alt_truthy /\ CandTruthy(first) /\ Truthy(text_value)
     THEN IF text_value.t # "str"
          THEN Raise                      \* .strip() on a non-string
          ELSE IF Strip(text_value.s) # <<>>
               THEN Return(Str(Strip(text_value.s)))
               ELSE text_attr_step(message)
     ELSE text_attr_step(message)

extract_text(message) ==
  IF message.kind = "none" THEN Return(None_)
  ELSE IF message.kind = "str"
  THEN (IF Strip(message.s) # <<>> THEN Return(Str(Strip(message.s)))
        ELSE Return(None_))
  ELSE LET content == message.content
       IN IF content.t = "str" /\ Strip(content.s) # <<>>
          THEN Return(Str(Strip(content.s)))
          ELSE alternatives_step(message)

(***************************************************************************)
(* VoiceAssistant._extract_language                                        *)
(***************************************************************************)
LangNames == <<"language", "language_code", "detected_language">>

RECURSIVE lang_scan(_, _)
lang_scan(f, names) ==
  IF names = <<>> THEN None_
  ELSE LET value == f[Head(names)]
       IN IF value.t = "str" /\ value.s # <<>> THEN value
          ELSE lang_scan(f, Tail(names))

extract_language(message) ==
  IF message.kind = "none" THEN None_
  ELSE LET by_attr == lang_scan(message.lattrs, LangNames)
       IN IF by_attr # None_ THEN by_attr
          ELSE IF message.kind = "dict"
               THEN lang_scan(message.lkeys, LangNames)
               ELSE None_

(***************************************************************************)
(* JSON bodies of backend responses.  kind: "object" (a JSON object with   *)
(* the keys in `fields`), "other" (valid JSON that is not an object) or    *)
(* "invalid" (resp.json() raises).  metadata: [t: "none" | "dict" |        *)
(* "other", language]                                                      *)
(***************************************************************************)
NoMeta == [t |-> "none", language |-> None_]
MetaDict(l) == [t |-> "dict", language |-> l]
MetaOther == [t |-> "other", language |-> None_]

JsonObject(f, sid, email, meta) ==
  [kind |-> "object", fields |-> f, session_id |-> sid,
   customer_email |-> email, metadata |-> meta]
JsonOther == [kind |-> "other", fields |-> {}, session_id |-> None_,
              customer_email |-> None_, metadata |-> NoMeta]
JsonInvalid == [kind |-> "invalid", fields |-> {}, session_id |-> None_,
                customer_email |-> None_, metadata |-> NoMeta]

\* dict.get(key, default)
Get(data, key, default) == IF key \in data.fields THEN data[key] ELSE default

S1 == Str(<<"S1">>)
S2 == Str(<<"S2">>)
E1 == Str(<<"a@b.com">>)
E2 == Str(<<"c@d.com">>)

\* An HTTP exchange ends with a response or with a network error / timeout
HttpResponse(st, b) == [net |-> "response", status |-> st, body |-> b]
NetworkError == [net |-> "error", status |-> 0, body |-> JsonInvalid]
Timeout == [net |-> "timeout", status |-> 0, body |-> JsonInvalid]

(***************************************************************************)
(* Inputs of the relay: rooms, speech backend answers              *)
(***************************************************************************)
Rooms == {<<"room-a">>}
Speakers == {"user", "assistant"}

BadAlternatives == AltList(<<CandDict(Num(5))>>)

SpeechEvents ==
  { MsgStr(PadHi),
    MsgObj(Str(PadHi), NoAlt, None_, [NoLang EXCEPT !.language = Str(LangAr)],
           [raises |-> FALSE, s |-> ObjRepr]),
    MsgObj(Str(Blank), NoAlt, None_, [NoLang EXCEPT !.language_code = Str(LangTa)],
           [raises |-> FALSE, s |-> Blank]),
    MsgObj(None_, BadAlternatives, Str(Hi), NoLang,
           [raises |-> FALSE, s |-> ObjRepr]) }

LookupBodies ==
  { JsonObject({"session_id", "customer_email", "metadata"}, S1, E1,
               MetaDict(Str(LangTa))),
    JsonObject({"session_id", "customer_email"}, S1, E1, NoMeta),
    JsonObject({"session_id", "customer_email", "metadata"}, S1, E1,
               MetaDict(Str(Empty))),
    JsonObject({"session_id", "customer_email", "metadata"}, S1, E1,
               MetaOther),
    JsonOther }

LookupOutcomes ==
  { HttpResponse(200, b) : b \in LookupBodies }
  \cup { HttpResponse(404, JsonObject({}, None_, None_, NoMeta)),
         HttpResponse(500, JsonInvalid),
         NetworkError, Timeout }

TranscriptBodies ==
  { JsonObject({"session_id", "customer_email"}, S1, E1, NoMeta),
    JsonObject({"session_id"}, S2, None_, NoMeta),
    JsonObject({"session_id", "customer_email"}, None_, None_, NoMeta),
    JsonOther,
    JsonInvalid }

TranscriptResponses ==
  { HttpResponse(200, b) : b \in TranscriptBodies }
  \cup { HttpResponse(300, JsonObject({"session_id", "customer_email"},
                                      S1, E1, NoMeta)) }

\* the ends of a POST that the code treats as a failure
FailedPosts ==
  { o \in TranscriptResponses : o.status >= 300 } \cup {NetworkError, Timeout}

(***************************************************************************)
(* State                                                                   *)
(***************************************************************************)
VARIABLES
  backend_url,          \* TRUE iff self.backend_url is a non-empty string
  room,                 \* ctx.room.name
  pc,                   \* position of entrypoint
  transcript_context,   \* the room's SessionContext
  lookups,              \* session-lookup requests issued so far
  lookup_result,        \* how the lookup ended: "none" before it has
  tasks,                \* background tasks still running, in creation order,
                        \* each with its arguments and the payload it posted
  last_exit,            \* how the latest callback or task ended ("raised",
                        \* "task_raised": an exception left it)
  first_merged,         \* history: what the first merged body with an identifier carried
  last_merged,          \* history: per field, the latest value a merged body carried
                        \* (both NotRecorded where the history is not kept)
  overtaken,            \* history: how many of the running tasks were created
                        \* before the task whose response last wrote an
                        \* identifier; -1 where this is not recorded
  message,              \* input of the extraction run
  extracted,            \* result of the extraction run
  customers,            \* table customers, in rowid order
  travel_bookings,      \* table travel_bookings, in rowid order
  conversations,        \* table conversations, in rowid order
  returned              \* the latest database call and what it returned

vars == <<backend_url, room, pc, transcript_context, lookups, lookup_result,
          tasks, last_exit, first_merged, last_merged, overtaken, message,
          extracted, customers, travel_bookings, conversations, returned>>

store_vars == <<customers, travel_bookings, conversations, returned>>

\* no database call has been made yet
NoCall == [op |-> "none"]

\* init_database on a fresh file: the three tables exist and are empty
init_database ==
  /\ customers = <<>>
  /\ travel_bookings = <<>>
  /\ conversations = <<>>
  /\ returned = NoCall

relay_vars == <<backend_url, room, pc, transcript_context, lookups,
                lookup_result, tasks, last_exit, first_merged, last_merged,
                overtaken>>

NoContext == [room_name |-> None_, session_id |-> None_,
              customer_email |-> None_, language |-> None_]

\* lines 205-210 of entrypoint
new_context(room_name) ==
  [room_name |-> Str(room_name), session_id |-> None_,
   customer_email |-> None_, language |-> Str(LangEn)]

\* history of merges: [has, value] per identifier
NoMerge == [session_id |-> [has |-> FALSE, value |-> None_],
            customer_email |-> [has |-> FALSE, value |-> None_]]

\* the history of merges is not recorded in this run
NotRecorded == [session_id |-> [has |-> FALSE, value |-> Num(-1)],
                customer_email |-> [has |-> FALSE, value |-> Num(-1)]]

IdFields == {"session_id", "customer_email"}

note_last(h, body) ==
  IF h = NotRecorded THEN h
  ELSE [f \in IdFields |->
          IF f \in body.fields THEN [has |-> TRUE, value |-> body[f]] ELSE h[f]]

\* the first merged body that carried an identifier with a value
note_first(h, body) ==
  IF h = NoMerge /\ \E f \in body.fields \cap IdFields : body[f] # None_
  THEN note_last(h, body) ELSE h

\* task t ends; wrote: its response wrote an identifier into the context
note_end(h, t, wrote) ==
  IF h < 0 THEN h
  ELSE IF wrote THEN t - 1 ELSE IF t <= h THEN h - 1 ELSE h

NotRun == [raised |-> FALSE, val |-> [t |-> "pending", s |-> <<>>, n |-> 0]]

(***************************************************************************)
(* VoiceAssistant._fetch_session_info: Optional[dict].  The result is      *)
(* [raised, some, data]: some = FALSE is Python's None.                    *)
(***************************************************************************)
NoData == [raised |-> FALSE, some |-> FALSE, data |-> JsonInvalid]

\* variant: no try/except around the request
fetch_session_info_uncaught(outcome) ==
  IF outcome.net # "response"
  THEN [raised |-> TRUE, some |-> FALSE, data |-> JsonInvalid]
  ELSE IF outcome.status = 200 /\ outcome.body.kind = "object"
       THEN [raised |-> FALSE, some |-> TRUE, data |-> outcome.body]
       ELSE NoData

fetch_session_info(outcome) ==
  IF outcome.net # "response" THEN NoData          \* except Exception
  ELSE IF outcome.status = 200
       THEN IF outcome.body.kind = "object"
            THEN [raised |-> FALSE, some |-> TRUE, data |-> outcome.body]
            ELSE NoData    \* resp.json() or data.get() raises: except Exception
       ELSE NoData

\* variant: whatever the metadata holds as language is taken
bind_session_any_metadata(context, session_info) ==
  IF session_info.some /\ session_info.data.fields # {}
  THEN LET data == session_info.data
           bound == [context EXCEPT
                       !.session_id = Get(data, "session_id", None_),
                       !.customer_email = Get(data, "customer_email", None_)]
           metadata == Get(data, "metadata", NoMeta)
       IN IF metadata.t # "none"
          THEN [bound EXCEPT !.language = metadata.language]
          ELSE bound
  ELSE context

\* lines 215-221 of entrypoint
bind_session(context, session_info) ==
  IF session_info.some /\ session_info.data.fields # {}
  THEN LET data == session_info.data
           bound == [context EXCEPT
                       !.session_id = Get(data, "session_id", None_),
                       !.customer_email = Get(data, "customer_email", None_)]
           metadata == Get(data, "metadata", NoMeta)
       IN IF metadata.t = "dict" /\ Truthy(metadata.language)
          THEN [bound EXCEPT !.language = metadata.language]
          ELSE bound
  ELSE context

(***************************************************************************)
(* VoiceAssistant._send_transcript, after the POST: the handling of the    *)
(* exchange's end.  Result: [raised, context, outcome, merge]              *)
(***************************************************************************)
\* variant: a field that is already set is kept
merge_response_keep(context, data) ==
  [context EXCEPT
     !.session_id = IF @ # None_ THEN @ ELSE Get(data, "session_id", @),
     !.customer_email = IF @ # None_ THEN @ ELSE Get(data, "customer_email", @)]

\* lines 187-189
merge_response(context, data) ==
  [context EXCEPT
     !.session_id = Get(data, "session_id", context.session_id),
     !.customer_email = Get(data, "customer_email", context.customer_email)]

\* variant: the body is merged before the status is looked at
send_transcript_end_eager(context, outcome) ==
  IF outcome.net # "response"
  THEN [raised |-> FALSE, context |-> context, outcome |-> "failed", merge |-> FALSE]
  ELSE IF outcome.status >= 300
  THEN [raised |-> FALSE,
        context |-> IF outcome.body.kind = "object"
                    THEN merge_response(context, outcome.body) ELSE context,
        outcome |-> "failed", merge |-> FALSE]
  ELSE IF outcome.body.kind = "invalid"
  THEN [raised |-> FALSE, context |-> context, outcome |-> "bad_body", merge |-> FALSE]
  ELSE IF outcome.body.kind = "object"
  THEN [raised |-> FALSE, context |-> merge_response(context, outcome.body),
        outcome |-> "stored", merge |-> TRUE]
  ELSE [raised |-> FALSE, context |-> context, outcome |-> "stored", merge |-> FALSE]

\* variant: the body is parsed outside the try and merged without the
\* isinstance check
send_transcript_end_unguarded(context, outcome) ==
  IF outcome.net # "response"
  THEN [raised |-> FALSE, context |-> context, outcome |-> "failed", merge |-> FALSE]
  ELSE IF outcome.status >= 300
  THEN [raised |-> FALSE, context |-> context, outcome |-> "failed", merge |-> FALSE]
  ELSE IF outcome.body.kind = "invalid"
  THEN [raised |-> TRUE, context |-> context, outcome |-> "bad_body", merge |-> FALSE]
  ELSE IF outcome.body.kind = "object"
  THEN [raised |-> FALSE, context |-> merge_response(context, outcome.body),
        outcome |-> "stored", merge |-> TRUE]
  ELSE [raised |-> TRUE, context |-> context, outcome |-> "stored", merge |-> FALSE]

send_transcript_end(context, outcome) ==
  IF outcome.net # "response"                      \* except Exception
  THEN [raised |-> FALSE, context |-> context, outcome |-> "failed", merge |-> FALSE]
  ELSE IF outcome.status >= 300
  THEN [raised |-> FALSE, context |-> context, outcome |-> "failed", merge |-> FALSE]
  ELSE IF outcome.body.kind = "invalid"            \* resp.json() raises
  THEN [raised |-> FALSE, context |-> context, outcome |-> "bad_body", merge |-> FALSE]
  ELSE IF outcome.body.kind = "object"
  THEN [raised |-> FALSE, context |-> merge_response(context, outcome.body),
        outcome |-> "stored", merge |-> TRUE]
  ELSE [raised |-> FALSE, context |-> context, outcome |-> "stored", merge |-> FALSE]

\* lines 157-165: the payload, built from the arguments bound at create_task
payload_of(args) ==
  [room_name |-> args.room_name, session_id |-> args.session_id,
   customer_email |-> args.customer_email, speaker |-> args.speaker,
   text |-> args.text,
   language |-> IF Truthy(args.language) THEN args.language ELSE Str(LangEn)]

(***************************************************************************)
(* Initial state: the assistant is constructed, entrypoint has not run     *)
(***************************************************************************)
Init ==
  /\ backend_url \in BOOLEAN
  /\ room \in Rooms
  /\ pc = "connect"
  /\ transcript_context = NoContext
  /\ lookups = 0
  /\ lookup_result = "none"
  /\ tasks = <<>>
  /\ last_exit = "none"
  /\ first_merged = NotRecorded
  /\ last_merged = NotRecorded
  /\ overtaken = -1
  /\ message = MsgNone
  /\ extracted = NotRun
  /\ init_database

(***************************************************************************)
(* entrypoint                                                              *)
(***************************************************************************)
\* lines 198-210: connect and create the context
connect ==
  /\ pc = "connect"
  /\ pc' = "bind"
  /\ transcript_context' = new_context(room)
  /\ UNCHANGED <<store_vars, overtaken, backend_url, room, lookups, lookup_result, tasks, last_exit,
                 first_merged, last_merged, message, extracted>>

\* lines 212-214: the GET of _fetch_session_info is issued
request_session_info ==
  /\ pc = "bind"
  /\ backend_url
  /\ pc' = "lookup"
  /\ lookups' = lookups + 1
  /\ UNCHANGED <<store_vars, overtaken, backend_url, room, transcript_context, lookup_result, tasks,
                 last_exit, first_merged, last_merged, message,
                 extracted>>

\* line 212: no backend URL, no lookup
skip_session_info ==
  /\ pc = "bind"
  /\ ~backend_url
  /\ pc' = "setup"
  /\ UNCHANGED <<store_vars, overtaken, backend_url, room, transcript_context, lookups, lookup_result,
                 tasks, last_exit, first_merged, last_merged, message, extracted>>

\* the class of a lookup's end, kept for the record
lookup_class(outcome) ==
  IF outcome.net = "response" /\ outcome.status = 200 THEN "200" ELSE "failed"

\* lines 214-221: the lookup ends and its result is bound
session_info_returns(outcome) ==
  LET session_info == fetch_session_info(outcome)
  IN /\ pc = "lookup"
     /\ lookup_result' = lookup_class(outcome)
     /\ IF session_info.raised
        THEN /\ pc' = "crashed"          \* the exception leaves entrypoint
             /\ UNCHANGED transcript_context
        ELSE /\ pc' = "setup"
             /\ transcript_context' = bind_session(transcript_context, session_info)
     /\ UNCHANGED <<store_vars, overtaken, backend_url, room, lookups, tasks, last_exit,
                    first_merged, last_merged, message, extracted>>

\* lines 301-381: handlers registered, session.start
start_session ==
  /\ pc = "setup"
  /\ pc' = "running"
  /\ UNCHANGED <<store_vars, overtaken, backend_url, room, transcript_context, lookups, lookup_result,
                 tasks, last_exit, first_merged, last_merged, message, extracted>>

(***************************************************************************)
(* _queue_transcript and the two speech-commit handlers                    *)
(***************************************************************************)
\* variant: a hint is applied only while the language is the default
detect_language_sticky(context, raw_message) ==
  LET detected_language == extract_language(raw_message)
  IN IF Truthy(detected_language) /\ context.language = Str(LangEn)
     THEN [context EXCEPT !.language = detected_language]
     ELSE context

\* lines 334-336
detect_language(context, raw_message) ==
  LET detected_language == extract_language(raw_message)
  IN IF Truthy(detected_language)
     THEN [context EXCEPT !.language = detected_language]
     ELSE context

\* variant: the identifiers are not passed on
dispatch_args_unbound(context, speaker, text) ==
  [room_name |-> context.room_name, session_id |-> None_,
   customer_email |-> None_, speaker |-> speaker,
   text |-> text, language |-> context.language]

\* lines 338-348: the arguments bound when the task is created
dispatch_args(context, speaker, text) ==
  [room_name |-> context.room_name, session_id |-> context.session_id,
   customer_email |-> context.customer_email, speaker |-> speaker,
   text |-> text, language |-> context.language]

\* no payload has been built
NoPayload ==
  [room_name |-> None_, session_id |-> None_, customer_email |-> None_,
   speaker |-> "none", text |-> None_, language |-> None_]

\* asyncio.create_task: the coroutine has not started, nothing is posted
new_task(args) ==
  [args |-> args, st |-> "created", posts |-> 0, payload |-> NoPayload]

\* variant: the language hint is applied before the text is looked at
queue_transcript_language_first(speaker, raw_message) ==
  LET text == extract_text(raw_message)
      context == detect_language(transcript_context, raw_message)
  IN /\ IF text.raised
        THEN /\ last_exit' = "raised"
             /\ UNCHANGED <<transcript_context, tasks>>
        ELSE IF ~Truthy(text.val)
        THEN /\ last_exit' = "no_text"
             /\ transcript_context' = context
             /\ UNCHANGED tasks
        ELSE /\ last_exit' = "dispatched"
             /\ transcript_context' = context
             /\ tasks' = Append(tasks,
                  new_task(dispatch_args(context, speaker, text.val)))
     /\ UNCHANGED <<store_vars, overtaken, backend_url, room, pc, lookups, lookup_result,
                    first_merged, last_merged, message, extracted>>

\* variant: the callback awaits the POST itself, so it cannot run while an
\* earlier POST is outstanding
queue_transcript_awaiting(speaker, raw_message) ==
  LET text == extract_text(raw_message)
  IN /\ \A t \in DOMAIN tasks : tasks[t].st = "created"
     /\ IF text.raised
        THEN /\ last_exit' = "raised"
             /\ UNCHANGED <<transcript_context, tasks>>
        ELSE IF ~Truthy(text.val)
        THEN /\ last_exit' = "no_text"
             /\ UNCHANGED <<transcript_context, tasks>>
        ELSE LET context == detect_language(transcript_context, raw_message)
             IN /\ last_exit' = "dispatched"
                /\ transcript_context' = context
                /\ tasks' = Append(tasks,
                     new_task(dispatch_args(context, speaker, text.val)))
     /\ UNCHANGED <<store_vars, overtaken, backend_url, room, pc, lookups, lookup_result,
                    first_merged, last_merged, message, extracted>>

queue_transcript(speaker, raw_message) ==
  LET text == extract_text(raw_message)
  IN /\ IF text.raised
        THEN /\ last_exit' = "raised"    \* the exception leaves the callback
             /\ UNCHANGED <<transcript_context, tasks>>
        ELSE IF ~Truthy(text.val)
        THEN /\ last_exit' = "no_text"
             /\ UNCHANGED <<transcript_context, tasks>>
        ELSE LET context == detect_language(transcript_context, raw_message)
             IN /\ last_exit' = "dispatched"
                /\ transcript_context' = context
                /\ tasks' = Append(tasks,
                     new_task(dispatch_args(context, speaker, text.val)))
     /\ UNCHANGED <<store_vars, overtaken, backend_url, room, pc, lookups, lookup_result,
                    first_merged, last_merged, message, extracted>>

\* variant: the handler is registered before the lookup is awaited
on_user_speech_committed_early(msg) ==
  /\ pc \in {"lookup", "running"}
  /\ Len(tasks) < MaxTasks
  /\ queue_transcript("user", msg)

on_user_speech_committed(msg) ==
  /\ pc = "running"
  /\ Len(tasks) < MaxTasks
  /\ queue_transcript("user", msg)

on_agent_speech_committed(msg) ==
  /\ pc = "running"
  /\ Len(tasks) < MaxTasks
  /\ queue_transcript("assistant", msg)

(***************************************************************************)
(* _send_transcript, one background task per dispatched transcript         *)
(***************************************************************************)
\* the event loop drops a finished task
Remove(seq, t) == [i \in 1..(Len(seq) - 1) |-> IF i < t THEN seq[i] ELSE seq[i + 1]]

\* variant: a failed transcript is queued again, once
finish_retry(running, t, outcome) ==
  IF outcome = "failed" /\ running[t].posts < 2
  THEN [running EXCEPT ![t].st = "created"]
  ELSE Remove(running, t)

\* the coroutine returns: nothing is retried, queued or kept
finish(running, t, outcome) == Remove(running, t)

\* variant: the payload is built from the shared context when the task runs
send_transcript_start_live(t) ==
  /\ t \in DOMAIN tasks
  /\ tasks[t].st = "created"
  /\ \A u \in 1..(t - 1) : tasks[u].st # "created"
  /\ IF backend_url
     THEN /\ tasks' = [tasks EXCEPT
                         ![t].st = "posted", ![t].posts = @ + 1,
                         ![t].payload =
                            payload_of(dispatch_args(transcript_context,
                                                     tasks[t].args.speaker,
                                                     tasks[t].args.text))]
          /\ UNCHANGED <<last_exit, overtaken>>
     ELSE /\ tasks' = finish(tasks, t, "skipped")
          /\ last_exit' = "skipped"
          /\ overtaken' = note_end(overtaken, t, FALSE)
  /\ UNCHANGED <<store_vars, backend_url, room, pc, transcript_context, lookups,
                 lookup_result, first_merged, last_merged, message,
                 extracted>>

\* lines 153-172: the task starts (tasks start in creation order) and
\* either returns at once or builds its payload and issues its POST
send_transcript_start(t) ==
  /\ t \in DOMAIN tasks
  /\ tasks[t].st = "created"
  /\ \A u \in 1..(t - 1) : tasks[u].st # "created"
  /\ IF backend_url
     THEN /\ tasks' = [tasks EXCEPT
                         ![t].st = "posted", ![t].posts = @ + 1,
                         ![t].payload = payload_of(tasks[t].args)]
          /\ UNCHANGED <<last_exit, overtaken>>
     ELSE /\ tasks' = finish(tasks, t, "skipped")
          /\ last_exit' = "skipped"
          /\ overtaken' = note_end(overtaken, t, FALSE)
  /\ UNCHANGED <<store_vars, backend_url, room, pc, transcript_context, lookups,
                 lookup_result, first_merged, last_merged, message,
                 extracted>>

\* variant: the POSTs reach the backend in the order of their tasks
post_arrives_in_order(t) ==
  /\ t \in DOMAIN tasks
  /\ tasks[t].st = "posted"
  /\ \A u \in 1..(t - 1) : tasks[u].st = "arrived"
  /\ tasks' = [tasks EXCEPT ![t].st = "arrived"]
  /\ UNCHANGED <<store_vars, overtaken, backend_url, room, pc,
                 transcript_context, lookups, lookup_result, last_exit,
                 first_merged, last_merged, message, extracted>>

\* the POST reaches the backend
post_arrives(t) ==
  /\ t \in DOMAIN tasks
  /\ tasks[t].st = "posted"
  /\ tasks' = [tasks EXCEPT ![t].st = "arrived"]
  /\ UNCHANGED <<store_vars, overtaken, backend_url, room, pc, transcript_context, lookups,
                 lookup_result, last_exit, first_merged, last_merged,
                 message, extracted>>

\* lines 172-191: the exchange ends with `outcome`
send_transcript_finish(t, outcome) ==
  LET r == send_transcript_end(transcript_context, outcome)
  IN /\ transcript_context' = r.context
     /\ tasks' = finish(tasks, t, r.outcome)
     /\ last_exit' = IF r.raised THEN "task_raised" ELSE r.outcome
     /\ first_merged' = IF r.merge THEN note_first(first_merged, outcome.body)
                        ELSE first_merged
     /\ last_merged' = IF r.merge THEN note_last(last_merged, outcome.body)
                       ELSE last_merged
     /\ overtaken' = note_end(overtaken, t,
                              r.merge /\ outcome.body.fields \cap IdFields # {})
     /\ UNCHANGED <<store_vars, backend_url, room, pc, lookups, lookup_result, message,
                    extracted>>

\* the backend answers
send_transcript_response(t, resp) ==
  /\ t \in DOMAIN tasks
  /\ tasks[t].st = "arrived"
  /\ send_transcript_finish(t, resp)

\* connection failure or timeout, before or after the POST arrived
send_transcript_error(t, err) ==
  /\ t \in DOMAIN tasks
  /\ tasks[t].st \in {"posted", "arrived"}
  /\ send_transcript_finish(t, err)

(***************************************************************************)
(* The extraction run: _extract_text applied to one payload                *)
(***************************************************************************)
ScalarSamples == {None_, Str(Blank), Str(PadHi), Str(PadYo), Num(5), Num(0)}

AltSamples ==
  { NoAlt, AltOther, AltList(<<>>),
    AltList(<<CandEmptyDict>>),
    AltList(<<CandObj(Str(Hey))>>),
    AltList(<<CandObj(Str(Blank))>>),
    AltList(<<CandObj(None_)>>),
    AltList(<<CandObj(Num(5))>>),
    AltList(<<CandDict(Str(Hey))>>),
    AltList(<<CandDict(Num(5))>>),
    AltList(<<CandDict(Str(Hey)), CandObj(Str(Hi))>>) }

StrvSamples ==
  { [raises |-> FALSE, s |-> ObjRepr],
    [raises |-> FALSE, s |-> Blank],
    [raises |-> TRUE, s |-> <<>>] }

Messages ==
  {MsgNone}
  \cup { MsgStr(x) : x \in {Empty, Blank, Hi, PadHi} }
  \cup { MsgObj(c, a, t, NoLang, sv) :
           c \in ScalarSamples, a \in AltSamples, t \in ScalarSamples,
           sv \in StrvSamples }
  \cup { MsgDict([text |-> kt, message |-> km, content |-> kc], NoLang) :
           kt \in ScalarSamples, km \in ScalarSamples, kc \in ScalarSamples }

InitExtract ==
  /\ backend_url = TRUE
  /\ room = <<"room-a">>
  /\ pc = "connect"
  /\ transcript_context = NoContext
  /\ lookups = 0
  /\ lookup_result = "none"
  /\ tasks = <<>>
  /\ last_exit = "none"
  /\ first_merged = NotRecorded
  /\ last_merged = NotRecorded
  /\ overtaken = -1
  /\ message \in Messages
  /\ extracted = NotRun
  /\ init_database

run_extract_text ==
  /\ extracted = NotRun
  /\ extracted' = extract_text(message)
  /\ UNCHANGED <<store_vars, relay_vars, message>>

(***************************************************************************)
(* Database/database.py: the SQLite store.  A table is the sequence of its *)
(* rows in rowid order; AUTOINCREMENT ids are 1, 2, ... (rows are never    *)
(* deleted).  Columns no operation below reads (name, password, amounts,   *)
(* last_login) are left out.  created_at is datetime.now(), the local wall *)
(* clock: it can repeat and it can go back.                                *)
(***************************************************************************)
MaxRows == 3

Emails == {E1, E2}
Sessions == {S1}
\* the customers whose history is read
Readers == {E1}
MessageTypes == {"user", "assistant"}
Clock == {1, 2}
D1 == Str(<<"2025-01-10">>)
D2 == Str(<<"2025-02-20">>)
Limits == {-1, 0, 1, 2}

\* the text of the k-th stored message
Text(k) == <<"msg", k>>

\* rows in all tables
Rows == Len(customers) + Len(travel_bookings) + Len(conversations)

\* the frame of a database call
call_frame == UNCHANGED <<relay_vars, message, extracted>>

\* variant: the customer's latest message of the same type is overwritten
save_conversation_replace(customer_email, session_id, message_type, message_text, now) ==
  LET same == {i \in DOMAIN conversations :
                 /\ conversations[i].customer_email = customer_email
                 /\ conversations[i].message_type = message_type}
  IN /\ Rows < MaxRows
     /\ conversations' =
          IF same = {}
          THEN Append(conversations,
                 [id |-> Len(conversations) + 1, customer_email |-> customer_email,
                  session_id |-> session_id, message_type |-> message_type,
                  message_text |-> message_text, language |-> Str(LangEn),
                  created_at |-> now])
          ELSE LET i == CHOOSE i \in same : \A j \in same : j <= i
               IN [conversations EXCEPT ![i].message_text = message_text,
                                        ![i].created_at = now]
     /\ returned' = [op |-> "save_conversation"]
     /\ UNCHANGED <<customers, travel_bookings>>
     /\ call_frame

\* INSERT INTO conversations (..., created_at) VALUES (..., datetime.now())
save_conversation(customer_email, session_id, message_type, message_text, now) ==
  /\ Rows < MaxRows
  /\ conversations' = Append(conversations,
       [id |-> Len(conversations) + 1, customer_email |-> customer_email,
        session_id |-> session_id, message_type |-> message_type,
        message_text |-> message_text, language |-> Str(LangEn),
        created_at |-> now])
  /\ returned' = [op |-> "save_conversation"]
  /\ UNCHANGED <<customers, travel_bookings>>
  /\ call_frame

\* the columns the SELECT of get_conversation_history reads
selected(row) ==
  [message_type |-> row.message_type, message_text |-> row.message_text,
   language |-> row.language, created_at |-> row.created_at]

\* variant: the WHERE clause is missing
rows_of_anyone(customer_email) ==
  SelectSeq(conversations, LAMBDA row : TRUE)

\* the rows of one customer, in rowid order
rows_of(customer_email) ==
  SelectSeq(conversations, LAMBDA row : row.customer_email = customer_email)

\* ORDER BY created_at ASC: every order of the rows numbered in S that is
\* ascending in created_at (SQL leaves the order of rows with equal keys open)
RECURSIVE ascending(_, _)
ascending(rows, S) ==
  IF S = {} THEN {<<>>}
  ELSE LET first == {i \in S : \A j \in S :
                       rows[i].created_at <= rows[j].created_at}
       IN UNION {{<<rows[i]>> \o rest : rest \in ascending(rows, S \ {i})} :
                 i \in first}

\* variant: only the rows of the session of the customer's latest row are read
fetchall_one_session(customer_email) ==
  LET all == rows_of(customer_email)
      rows == SelectSeq(all, LAMBDA row : row.session_id = all[Len(all)].session_id)
  IN ascending([i \in DOMAIN rows |-> selected(rows[i])], DOMAIN rows)

\* SELECT message_type, message_text, language, created_at FROM conversations
\* WHERE customer_email = ? ORDER BY created_at ASC
fetchall(customer_email) ==
  LET rows == rows_of(customer_email)
  IN ascending([i \in DOMAIN rows |-> selected(rows[i])], DOMAIN rows)

NoResponse == <<"No response", 0>>

\* lines 298-303: one conversation pair
turn(msg, ai_response) ==
  [user_message |-> msg.message_text, ai_response |-> ai_response,
   created_at |-> msg.created_at, duration |-> "N/A"]

\* variant: the next message is taken as the reply whatever its tag
RECURSIVE scan_any_next(_, _)
scan_any_next(all_messages, i) ==
  IF i > Len(all_messages) THEN <<>>
  ELSE LET msg == all_messages[i]
       IN IF msg.message_type = "user"
          THEN IF i + 1 <= Len(all_messages)
               THEN <<turn(msg, all_messages[i + 1].message_text)>>
                    \o scan_any_next(all_messages, i + 2)
               ELSE <<turn(msg, NoResponse)>> \o scan_any_next(all_messages, i + 1)
          ELSE scan_any_next(all_messages, i + 1)

\* variant: a user message without a reply opens no turn
RECURSIVE scan_answered_only(_, _)
scan_answered_only(all_messages, i) ==
  IF i > Len(all_messages) THEN <<>>
  ELSE LET msg == all_messages[i]
       IN IF /\ msg.message_type = "user"
             /\ i + 1 <= Len(all_messages)
             /\ all_messages[i + 1].message_type = "assistant"
          THEN <<turn(msg, all_messages[i + 1].message_text)>>
               \o scan_answered_only(all_messages, i + 2)
          ELSE scan_answered_only(all_messages, i + 1)

\* variant: a message that is not a claimed reply opens a turn, whatever its tag
RECURSIVE scan_orphans(_, _)
scan_orphans(all_messages, i) ==
  IF i > Len(all_messages) THEN <<>>
  ELSE LET msg == all_messages[i]
       IN IF /\ msg.message_type = "user"
             /\ i + 1 <= Len(all_messages)
             /\ all_messages[i + 1].message_type = "assistant"
          THEN <<turn(msg, all_messages[i + 1].message_text)>>
               \o scan_orphans(all_messages, i + 2)
          ELSE <<turn(msg, NoResponse)>> \o scan_orphans(all_messages, i + 1)

\* variant: of user messages in a row only the last opens a turn
RECURSIVE scan_last_of_run(_, _)
scan_last_of_run(all_messages, i) ==
  IF i > Len(all_messages) THEN <<>>
  ELSE LET msg == all_messages[i]
       IN IF msg.message_type = "user"
          THEN IF /\ i + 1 <= Len(all_messages)
                  /\ all_messages[i + 1].message_type = "assistant"
               THEN <<turn(msg, all_messages[i + 1].message_text)>>
                    \o scan_last_of_run(all_messages, i + 2)
               ELSE IF i + 1 <= Len(all_messages)
               THEN scan_last_of_run(all_messages, i + 1)
               ELSE <<turn(msg, NoResponse)>>
          ELSE scan_last_of_run(all_messages, i + 1)

\* lines 282-305: the while loop, from cursor i (1-based) on
RECURSIVE scan(_, _)
scan(all_messages, i) ==
  IF i > Len(all_messages) THEN <<>>
  ELSE LET msg == all_messages[i]
       IN IF msg.message_type = "user"
          THEN IF /\ i + 1 <= Len(all_messages)
                  /\ all_messages[i + 1].message_type = "assistant"
               THEN <<turn(msg, all_messages[i + 1].message_text)>>
                    \o scan(all_messages, i + 2)
               ELSE <<turn(msg, NoResponse)>> \o scan(all_messages, i + 1)
          ELSE scan(all_messages, i + 1)

\* list.reverse()
Reverse(seq) == [i \in 1..Len(seq) |-> seq[Len(seq) + 1 - i]]

\* seq[:limit], Python's slice: a negative limit counts from the end
Slice(seq, limit) ==
  LET stop == IF limit >= 0 THEN limit ELSE Len(seq) + limit
      k == IF stop < 0 THEN 0 ELSE IF stop > Len(seq) THEN Len(seq) ELSE stop
  IN SubSeq(seq, 1, k)

\* variant: the list is cut to limit before it is reversed
pair_messages_truncate_first(all_messages, limit) ==
  Reverse(Slice(scan(all_messages, 1), limit))

\* lines 280-309
pair_messages(all_messages, limit) ==
  Slice(Reverse(scan(all_messages, 1)), limit)

get_conversation_history(customer_email, limit) ==
  /\ \E all_messages \in fetchall(customer_email) :
       returned' = [op |-> "get_conversation_history",
                    customer_email |-> customer_email, limit |-> limit,
                    all_messages |-> all_messages,
                    value |-> pair_messages(all_messages, limit)]
  /\ UNCHANGED <<customers, travel_bookings, conversations>>
  /\ call_frame

\* SELECT * FROM customers WHERE email = ?
customer_by_email(email) ==
  {i \in DOMAIN customers : customers[i].email = email}

get_or_create_customer(email) ==
  /\ IF customer_by_email(email) # {}
     THEN /\ UNCHANGED customers
          /\ returned' = [op |-> "get_or_create_customer",
                          id |-> CHOOSE i \in customer_by_email(email) : TRUE]
     ELSE /\ Rows < MaxRows
          /\ customers' = Append(customers,
               [id |-> Len(customers) + 1, email |-> email])
          /\ returned' = [op |-> "get_or_create_customer",
                          id |-> Len(customers) + 1]
  /\ UNCHANGED <<travel_bookings, conversations>>
  /\ call_frame

create_travel_booking(customer_email, departure_date, return_date) ==
  /\ IF customer_by_email(customer_email) = {}
     THEN /\ UNCHANGED travel_bookings
          /\ returned' = [op |-> "create_travel_booking",
                          error |-> "Customer not found"]
     ELSE /\ Rows < MaxRows
          /\ travel_bookings' = Append(travel_bookings,
               [id |-> Len(travel_bookings) + 1,
                customer_id |-> CHOOSE i \in customer_by_email(customer_email) : TRUE,
                customer_email |-> customer_email,
                departure_date |-> departure_date,
                return_date |-> return_date,
                status |-> "confirmed"])
          /\ returned' = [op |-> "create_travel_booking",
                          booking_id |-> Len(travel_bookings) + 1]
  /\ UNCHANGED <<customers, conversations>>
  /\ call_frame

\* variant: the booking is looked up by its id alone
booking_of_anyone(booking_id, customer_email) ==
  {i \in DOMAIN travel_bookings : travel_bookings[i].id = booking_id}

\* SELECT tb.id, c.email, tb.status FROM travel_bookings tb
\* JOIN customers c ON tb.customer_id = c.id WHERE tb.id = ? AND c.email = ?
booking_of(booking_id, customer_email) ==
  {i \in DOMAIN travel_bookings :
     /\ travel_bookings[i].id = booking_id
     /\ \E c \in DOMAIN customers :
          /\ customers[c].id = travel_bookings[i].customer_id
          /\ customers[c].email = customer_email}

\* the latest call, with its arguments, and the dict it returned
failure(op, booking_id, customer_email, message_) ==
  [op |-> op, booking_id |-> booking_id, customer_email |-> customer_email,
   success |-> FALSE, message |-> message_]

success(op, booking_id, customer_email, message_) ==
  [op |-> op, booking_id |-> booking_id, customer_email |-> customer_email,
   success |-> TRUE, message |-> message_]

cancel_booking(booking_id, customer_email) ==
  /\ IF booking_of(booking_id, customer_email) = {}
     THEN /\ UNCHANGED travel_bookings
          /\ returned' = failure("cancel_booking", booking_id, customer_email,
                                 "Booking not found or access denied")
     ELSE IF travel_bookings[booking_id].status = "cancelled"
     THEN /\ UNCHANGED travel_bookings
          /\ returned' = failure("cancel_booking", booking_id, customer_email,
                                 "Booking is already cancelled")
     ELSE /\ travel_bookings' =
               [travel_bookings EXCEPT ![booking_id].status = "cancelled"]
          /\ returned' = success("cancel_booking", booking_id, customer_email,
                                 "Booking cancelled successfully")
  /\ UNCHANGED <<customers, conversations>>
  /\ call_frame

\* variant: the status is not looked at
reschedule_booking_any_status(booking_id, customer_email, new_departure_date, new_return_date) ==
  /\ IF booking_of(booking_id, customer_email) = {}
     THEN /\ UNCHANGED travel_bookings
          /\ returned' = failure("reschedule_booking", booking_id, customer_email,
                                 "Booking not found or access denied")
     ELSE IF ~Truthy(new_departure_date) /\ ~Truthy(new_return_date)
     THEN /\ UNCHANGED travel_bookings
          /\ returned' = failure("reschedule_booking", booking_id, customer_email,
                                 "No new dates provided")
     ELSE /\ travel_bookings' =
               [travel_bookings EXCEPT
                  ![booking_id].departure_date =
                     IF Truthy(new_departure_date)
                     THEN new_departure_date ELSE @,
                  ![booking_id].return_date =
                     IF Truthy(new_return_date) THEN new_return_date ELSE @]
          /\ returned' = success("reschedule_booking", booking_id, customer_email,
                                 "Booking rescheduled successfully")
  /\ UNCHANGED <<customers, conversations>>
  /\ call_frame

reschedule_booking(booking_id, customer_email, new_departure_date, new_return_date) ==
  /\ IF booking_of(booking_id, customer_email) = {}
     THEN /\ UNCHANGED travel_bookings
          /\ returned' = failure("reschedule_booking", booking_id, customer_email,
                                 "Booking not found or access denied")
     ELSE IF travel_bookings[booking_id].status = "cancelled"
     THEN /\ UNCHANGED travel_bookings
          /\ returned' = failure("reschedule_booking", booking_id, customer_email,
                                 "Cannot reschedule a cancelled booking")
     ELSE IF ~Truthy(new_departure_date) /\ ~Truthy(new_return_date)
     THEN /\ UNCHANGED travel_bookings
          /\ returned' = failure("reschedule_booking", booking_id, customer_email,
                                 "No new dates provided")
     ELSE /\ travel_bookings' =
               [travel_bookings EXCEPT
                  ![booking_id].departure_date =
                     IF Truthy(new_departure_date)
                     THEN new_departure_date ELSE @,
                  ![booking_id].return_date =
                     IF Truthy(new_return_date) THEN new_return_date ELSE @]
          /\ returned' = success("reschedule_booking", booking_id, customer_email,
                                 "Booking rescheduled successfully")
  /\ UNCHANGED <<customers, conversations>>
  /\ call_frame

InitStore ==
  /\ backend_url = TRUE
  /\ room = <<"room-a">>
  /\ pc = "connect"
  /\ transcript_context = NoContext
  /\ lookups = 0
  /\ lookup_result = "none"
  /\ tasks = <<>>
  /\ last_exit = "none"
  /\ first_merged = NotRecorded
  /\ last_merged = NotRecorded
  /\ overtaken = -1
  /\ message = MsgNone
  /\ extracted = NotRun
  /\ init_database

(***************************************************************************)
(* Specifications                                                          *)
(***************************************************************************)
Next ==
  \/ connect
  \/ request_session_info
  \/ skip_session_info
  \/ \E outcome \in LookupOutcomes : session_info_returns(outcome)
  \/ start_session
  \/ \E msg \in SpeechEvents : on_user_speech_committed(msg)
  \/ \E msg \in SpeechEvents : on_agent_speech_committed(msg)
  \/ \E t \in 1..MaxTasks : send_transcript_start(t)
  \/ \E t \in 1..MaxTasks : post_arrives(t)
  \/ \E t \in 1..MaxTasks, resp \in TranscriptResponses :
        send_transcript_response(t, resp)
  \/ \E t \in 1..MaxTasks, err \in {NetworkError, Timeout} :
        send_transcript_error(t, err)

Spec == Init /\ [][Next]_vars

\* the relay with the order of the writers recorded
InitRace ==
  /\ backend_url \in BOOLEAN
  /\ room \in Rooms
  /\ pc = "connect"
  /\ transcript_context = NoContext
  /\ lookups = 0
  /\ lookup_result = "none"
  /\ tasks = <<>>
  /\ last_exit = "none"
  /\ first_merged = NotRecorded
  /\ last_merged = NotRecorded
  /\ overtaken = 0
  /\ message = MsgNone
  /\ extracted = NotRun
  /\ init_database

SpecRace == InitRace /\ [][Next]_vars

\* the relay with the history of the merged responses recorded
InitLate ==
  /\ backend_url \in BOOLEAN
  /\ room \in Rooms
  /\ pc = "connect"
  /\ transcript_context = NoContext
  /\ lookups = 0
  /\ lookup_result = "none"
  /\ tasks = <<>>
  /\ last_exit = "none"
  /\ first_merged = NoMerge
  /\ last_merged = NoMerge
  /\ overtaken = -1
  /\ message = MsgNone
  /\ extracted = NotRun
  /\ init_database

SpecLate == InitLate /\ [][Next]_vars

NextExtract == run_extract_text

SpecExtract == InitExtract /\ [][NextExtract]_vars

NextStore ==
  \/ \E email \in Emails, session_id \in Sessions, type \in MessageTypes,
        now \in Clock :
        save_conversation(email, session_id, type,
                          Text(Len(conversations) + 1), now)
  \/ \E email \in Readers, limit \in Limits :
        get_conversation_history(email, limit)
  \/ \E email \in Emails : get_or_create_customer(email)
  \/ \E email \in Emails : create_travel_booking(email, D1, None_)
  \/ \E booking_id \in 1..(Len(travel_bookings) + 1), email \in Emails :
        cancel_booking(booking_id, email)
  \/ \E booking_id \in 1..(Len(travel_bookings) + 1), email \in Emails,
        new_departure_date \in {None_, D2}, new_return_date \in {None_, D2} :
        reschedule_booking(booking_id, email, new_departure_date,
                           new_return_date)

SpecStore == InitStore /\ [][NextStore]_vars

\* one customer talking in two sessions at once, and the reads of the history
ConcurrentSessions == {S1, S2}
SessionLimits == {1, 3}

NextSessions ==
  \/ \E session_id \in ConcurrentSessions, type \in MessageTypes, now \in Clock :
        save_conversation(E1, session_id, type, Text(Len(conversations) + 1), now)
  \/ \E limit \in SessionLimits : get_conversation_history(E1, limit)

SpecSessions == InitStore /\ [][NextSessions]_vars

(***************************************************************************)
(* Properties of the relay                                                 *)
(***************************************************************************)
DefaultContext ==
  [room_name |-> Str(room), session_id |-> None_, customer_email |-> None_,
   language |-> Str(LangEn)]

\* this step is a speech-commit callback that created a task
Dispatched == Len(tasks') = Len(tasks) + 1
NewTask == tasks'[Len(tasks')]

\* this step is the end of a background task
TaskEnded == Len(tasks') < Len(tasks)

\* C1: once session_id or customer_email holds a value, no step resets it
\* to unset.
C1_IdentifiersNeverReset ==
  [][\A f \in IdFields :
       transcript_context[f] # None_ => transcript_context'[f] # None_]_vars

Answered(running) ==
  Cardinality({t \in DOMAIN running : running[t].st = "arrived"})

\* C3: at most one task per speech event, at most one POST per task, and a
\* transcript whose POST failed is gone: not re-sent, queued or buffered.
C3_AtMostOnce ==
  [][/\ Len(tasks') > Len(tasks)
          => Len(tasks') = Len(tasks) + 1 /\ last_exit' = "dispatched"
     /\ \A t \in DOMAIN tasks' :
          /\ tasks'[t].posts <= 1
          /\ tasks'[t].st = "created" => tasks'[t].posts = 0
     /\ Answered(tasks') < Answered(tasks)
          => Len(tasks') = Len(tasks) - 1]_vars

C3_Witness ==
  /\ last_exit = "failed"
  /\ tasks = <<>>
  /\ pc = "running"

\* the speech events from which no text is extracted
SilentEvents ==
  {msg \in SpeechEvents :
     ~extract_text(msg).raised /\ ~Truthy(extract_text(msg).val)}

\* C4: a speech event without usable text creates no task, sends nothing and
\* leaves the context as it was, language hint or not; every task that is
\* created carries usable text.
C4_NoTextIsNoOp ==
  [][/\ last_exit' = "no_text"
          => \A msg \in SilentEvents :
               ( \/ on_user_speech_committed(msg)
                 \/ on_agent_speech_committed(msg) )
               => /\ tasks' = tasks
                  /\ transcript_context' = transcript_context
     /\ Dispatched => Truthy(NewTask.args.text)]_vars

C4_Witness ==
  /\ last_exit = "no_text"
  /\ transcript_context.language # Str(LangTa)
  /\ tasks = <<>>

\* C5: after the merge of a successful response with a JSON object, each
\* identifier the object carries is the context's value, whatever it was
\* before, and each one it does not carry keeps its value.
C5_MergeOverwrites ==
  [][(TaskEnded /\ last_exit' = "stored") =>
       \A t \in DOMAIN tasks : \A resp \in TranscriptResponses :
       ( /\ resp.status < 300
         /\ resp.body.kind = "object"
         /\ send_transcript_response(t, resp) )
       => \A f \in IdFields :
            transcript_context'[f] =
              IF f \in resp.body.fields THEN resp.body[f]
              ELSE transcript_context[f]]_vars

C5_Witness ==
  /\ last_exit = "stored"
  /\ lookup_result = "200"
  /\ transcript_context.session_id = S2
  /\ transcript_context.customer_email = E1

\* C6: while the session runs, every speech event can be handled at once,
\* however many earlier tasks still await their POST response.
C6_CallbackNeverWaits ==
  ( /\ pc = "running"
    /\ Len(tasks) < MaxTasks
    /\ \E t \in DOMAIN tasks : tasks[t].st \in {"posted", "arrived"} )
  => \A msg \in SpeechEvents :
       /\ ENABLED on_user_speech_committed(msg)
       /\ ENABLED on_agent_speech_committed(msg)

C6_Witness ==
  /\ Len(tasks) = 2
  /\ tasks[1].st \in {"posted", "arrived"}
  /\ tasks[2].st = "created"
  /\ last_exit = "dispatched"
  /\ tasks[2].args.language = Str(LangAr)
  /\ tasks[1].args.language = Str(LangEn)

\* C7: after a failed session lookup the context has room_name and defaults
\* only, no exception left entrypoint, and entrypoint goes on to start the
\* session.
C7_LookupFailureIsNotFatal ==
  lookup_result = "failed"
  => /\ pc \in {"setup", "running"}
     /\ pc = "setup" => transcript_context = DefaultContext
     /\ pc = "setup" => ENABLED start_session

C7_Witness ==
  /\ lookup_result = "failed"
  /\ pc = "running"
  /\ lookups = 1

\* C8 as claimed: in a room whose lookup failed, once a response carrying
\* identifiers has been merged, every transcript dispatched later carries
\* those identifiers.  (Stated for the identifiers that no later response
\* has reset to null: that reset is the matter of C1.)
C8_LateBindingKeepsFirst ==
  [][(Dispatched /\ lookup_result = "failed")
     => \A f \in IdFields :
          (first_merged[f].has /\ last_merged[f].value # None_)
          => NewTask.args[f] = first_merged[f].value]_vars

\* C8 as amended: in a room whose lookup failed, every transcript dispatched
\* carries, for each identifier, the value carried by the latest merged
\* response that carried it (unset if none did).
C8_LateBindingKeepsLatest ==
  [][(Dispatched /\ lookup_result = "failed")
     => \A f \in IdFields : NewTask.args[f] = last_merged[f].value]_vars

C8_Witness ==
  /\ lookup_result = "failed"
  /\ first_merged.session_id.value = S1
  /\ \E t \in DOMAIN tasks :
       /\ tasks[t].args.session_id = S2
       /\ tasks[t].args.customer_email = E1

\* C9: no exception leaves a speech-commit callback, a background task or
\* entrypoint.
C9_NoExceptionEscapes ==
  /\ last_exit \notin {"raised", "task_raised"}
  /\ pc # "crashed"

\* C10: _extract_text never raises.
C10_ExtractNeverRaises ==
  extracted # NotRun => ~extracted.raised


\* C19: nothing in the relay orders the arrivals: the POST of every task
\* that has posted can be the next to reach the backend, whatever the state
\* of the tasks created before it.
C19_ArrivalUnordered ==
  \A t \in DOMAIN tasks : tasks[t].st = "posted" => ENABLED post_arrives(t)

\* B's POST has reached the backend, the POST of A, created before B, has not
C19_Witness ==
  /\ Len(tasks) = 2
  /\ tasks[1].st = "posted"
  /\ tasks[2].st = "arrived"

\* C20: a task whose transcript was dispatched before the one whose response
\* last wrote the identifiers never replaces an identifier with a value of
\* its own response.
C20_OnlyFresher ==
  [][\A t \in DOMAIN tasks : \A resp \in TranscriptResponses :
       (t <= overtaken /\ send_transcript_response(t, resp))
       => \A f \in IdFields :
            transcript_context'[f] # None_
            => transcript_context'[f] = transcript_context[f]]_vars

\* C21: a speech event with usable text sets the context's language to the
\* hint it carries and leaves the language alone when it carries none; no
\* other step of the running session (a response merge, an event without
\* text) changes the language, so the language is the hint of the most recent
\* relayed event that carried one, or else the value set at room join.
C21_LastLanguageWins ==
  [][/\ Dispatched
          => \A msg \in SpeechEvents :
               ( \/ on_user_speech_committed(msg)
                 \/ on_agent_speech_committed(msg) )
               => transcript_context'.language =
                    IF Truthy(extract_language(msg))
                    THEN extract_language(msg)
                    ELSE transcript_context.language
     /\ (pc = "running" /\ ~Dispatched)
          => transcript_context'.language = transcript_context.language]_vars

\* the language bound at room join went out with a transcript that carried
\* no hint, and a later hint has replaced it
C21_Witness ==
  /\ pc = "running"
  /\ transcript_context.language = Str(LangAr)
  /\ \E t \in DOMAIN tasks : tasks[t].args.language = Str(LangTa)

\* the value a JSON body holds under `key`, None_ when it holds none
ResponseValue(body, key) ==
  IF body.kind = "object" /\ key \in body.fields THEN body[key] ELSE None_

\* the language hint of a JSON body: the non-empty language of a metadata
\* mapping, None_ when there is none
ResponseHint(body) ==
  LET metadata == ResponseValue(body, "metadata")
  IN IF metadata # None_ /\ metadata.t = "dict" /\ Truthy(metadata.language)
     THEN metadata.language
     ELSE None_

\* C22: when the session lookup is answered with status 200, the context's
\* session_id and customer_email are the values of the response, and its
\* language is the response's metadata language when metadata is a mapping
\* with a non-empty language and "en-US" otherwise.
C22_LookupBinds ==
  [][pc = "lookup"
       => \A outcome \in LookupOutcomes :
            ( /\ outcome.net = "response"
              /\ outcome.status = 200
              /\ session_info_returns(outcome) )
            => /\ pc' = "setup"
               /\ transcript_context'.session_id =
                    ResponseValue(outcome.body, "session_id")
               /\ transcript_context'.customer_email =
                    ResponseValue(outcome.body, "customer_email")
               /\ transcript_context'.language =
                    IF ResponseHint(outcome.body) # None_
                    THEN ResponseHint(outcome.body)
                    ELSE Str(LangEn)
               /\ transcript_context'.room_name = Str(room)]_vars

\* the lookup was answered with 200 and its metadata language is bound
C22_Witness ==
  /\ pc = "setup"
  /\ lookup_result = "200"
  /\ transcript_context.session_id = S1
  /\ transcript_context.customer_email = E1
  /\ transcript_context.language = Str(LangTa)

\* a speech-commit callback has run in this room
CallbackRan == tasks # <<>> \/ last_exit # "none"

\* C23 as stated: every room join issues exactly one session-lookup request,
\* completed before the handlers are registered and before any transcript
\* is dispatched.
C23_ExactlyOneLookup ==
  /\ pc \in {"setup", "running"} => lookups = 1 /\ lookup_result # "none"
  /\ CallbackRan => pc = "running"

\* C23, amended: a room join issues at most one session-lookup request, one
\* when the backend URL is non-empty and none when it is empty; the request
\* has ended before the handlers are registered, so no callback runs and no
\* transcript is dispatched while it is outstanding.
C23_AtMostOneLookup ==
  /\ lookups <= 1
  /\ pc \in {"connect", "bind"} => lookups = 0
  /\ pc = "lookup" => lookups = 1 /\ lookup_result = "none"
  /\ pc \in {"setup", "running"}
       => IF backend_url THEN lookups = 1 /\ lookup_result # "none"
                        ELSE lookups = 0 /\ lookup_result = "none"
  /\ CallbackRan => pc = "running"

\* a transcript was dispatched in a room whose one lookup had been answered
C23_Witness ==
  /\ pc = "running"
  /\ lookups = 1
  /\ lookup_result = "200"
  /\ Len(tasks) = 1
  /\ tasks[1].st = "created"

\* the fields of the context that a payload carries
SnapshotFields == {"session_id", "customer_email", "language"}

\* C24: a task is created with the context's session_id, customer_email and
\* language of the moment of its dispatch and with the room's name; these
\* arguments never change while the task lives, whatever happens to the
\* context; and the payload the task builds when it runs carries exactly
\* them.
C24_PayloadIsDispatchSnapshot ==
  [][/\ Dispatched
          => /\ \A f \in SnapshotFields :
                  NewTask.args[f] = transcript_context'[f]
             /\ NewTask.args.room_name = Str(room)
             /\ \A t \in DOMAIN tasks : tasks'[t] = tasks[t]
     /\ Len(tasks') = Len(tasks)
          => \A t \in DOMAIN tasks :
               /\ tasks'[t].args = tasks[t].args
               /\ (tasks[t].st = "created" /\ tasks'[t].st = "posted")
                    => /\ \A f \in SnapshotFields :
                            tasks'[t].payload[f] = tasks[t].args[f]
                       /\ tasks'[t].payload.room_name = Str(room)
               /\ tasks[t].st # "created"
                    => tasks'[t].payload = tasks[t].payload
     /\ TaskEnded => \E t \in DOMAIN tasks : tasks' = Remove(tasks, t)]_vars

\* a transcript that is dispatched and not yet sent holds the identifiers
\* and the language of its dispatch, and the context has moved on since:
\* an earlier task's response has bound the session and a later callback
\* has changed the language
C24_Witness ==
  /\ Len(tasks) = 2
  /\ tasks[1].st = "created"
  /\ tasks[1].args.session_id = None_
  /\ tasks[1].args.language = Str(LangEn)
  /\ transcript_context.session_id = S1
  /\ transcript_context.language = Str(LangAr)

\* the answers with a status below 300 whose body is not a JSON object
BadBodies ==
  {resp \in TranscriptResponses :
     resp.status < 300 /\ resp.body.kind \in {"invalid", "other"}}

\* C25: when a transcript POST is answered with a status below 300 and a
\* body that is not JSON or is JSON but not an object, the task ends, the
\* context is what it was, and no exception leaves the task.
C25_BadBodyIsIgnored ==
  [][(TaskEnded /\ last_exit' \in {"bad_body", "stored", "task_raised"})
       => \A t \in DOMAIN tasks : \A resp \in BadBodies :
            send_transcript_response(t, resp)
            => /\ transcript_context' = transcript_context
               /\ last_exit' # "task_raised"
               /\ pc' = pc
               /\ tasks' = Remove(tasks, t)]_vars

\* a body that is not JSON has been answered to a task of a bound session
C25_Witness ==
  /\ last_exit = "bad_body"
  /\ lookup_result = "200"
  /\ transcript_context.session_id = S1
  /\ transcript_context.customer_email = E1

(***************************************************************************)
(* The text sources of a payload, in the order the extractor tries them    *)
(***************************************************************************)
\* the text of the first alternatives element, None_ when there is none
AltText(msg) ==
  IF msg.alternatives.t = "list" /\ msg.alternatives.e # <<>>
  THEN msg.alternatives.e[1].text ELSE None_

\* the text-bearing fields of a payload
Candidates(msg) ==
  IF msg.kind = "str" THEN <<Str(msg.s)>>
  ELSE IF msg.kind = "obj" THEN <<msg.content, AltText(msg), msg.text>>
  ELSE IF msg.kind = "dict"
  THEN <<msg.keys["text"], msg.keys["message"], msg.keys["content"]>>
  ELSE <<>>

NonEmpty(s) == s # <<>>

\* the trimmed texts the fields offer, empty ones left out
TextSources(msg) ==
  LET c == Candidates(msg)
  IN SelectSeq([i \in DOMAIN c |-> IF c[i].t = "str" THEN Strip(c[i].s) ELSE <<>>],
               NonEmpty)

\* every text-bearing field is a string or absent
WellFormed(msg) ==
  \A i \in DOMAIN Candidates(msg) : Candidates(msg)[i].t \in {"none", "str"}

\* the text-bearing fields hold only whitespace (or nothing at all)
BlankOnly(msg) ==
  LET c == Candidates(msg)
  IN /\ \E i \in DOMAIN c : c[i].t = "str"
     /\ \A i \in DOMAIN c :
          c[i] = None_ \/ (c[i].t = "str" /\ Strip(c[i].s) = <<>>)

\* C11: an empty or whitespace-only string, and an object or mapping whose
\* text-bearing fields hold only whitespace, yield no text (None or "").
C11_BlankYieldsNoText ==
  (extracted # NotRun /\ BlankOnly(message))
  => ~extracted.raised /\ ~Truthy(extracted.val)

\* C12: the first non-empty text source wins, trimmed: for a payload with
\* several non-empty sources, and for a payload of strings with at least
\* one, the result is the first in the order content, alternatives[0].text,
\* text (object) or text, message, content (mapping); empty ones are passed over.
C12_FirstMatchWins ==
  ( /\ extracted # NotRun
    /\ \/ Len(TextSources(message)) >= 2
       \/ Len(TextSources(message)) >= 1 /\ WellFormed(message) )
  => extracted = Return(Str(TextSources(message)[1]))

C12_Witness ==
  /\ message.kind = "obj"
  /\ message.content = Str(Blank)
  /\ message.alternatives = AltList(<<CandDict(Str(Hey)), CandObj(Str(Hi))>>)
  /\ message.text = Str(PadHi)
  /\ extracted = Return(Str(Hey))

(***************************************************************************)
(* Properties of the store                                                 *)
(***************************************************************************)

\* the latest call read a history
History == returned.op = "get_conversation_history"

\* the texts of the user-tagged messages, in log order
UserTexts(m) ==
  LET users == SelectSeq(m, LAMBDA row : row.message_type = "user")
  IN [i \in DOMAIN users |-> users[i].message_text]

\* the latest call read a history and limit did not cut it
Untruncated == History /\ returned.limit >= Len(UserTexts(returned.all_messages))

\* the tags of a fetched log
Tags(m) == [i \in DOMAIN m |-> m[i].message_type]

\* C13: a user message directly followed by an assistant message yields
\* exactly one turn, whose reply is that assistant message's text, and that
\* text is the reply of no other turn; [user, assistant] gives one turn.
C13_ReplyIsNextAssistant ==
  Untruncated =>
    LET m == returned.all_messages
        v == returned.value
    IN /\ \A i \in DOMAIN m :
            ( /\ m[i].message_type = "user"
              /\ i + 1 \in DOMAIN m
              /\ m[i + 1].message_type = "assistant" )
            => /\ Cardinality({k \in DOMAIN v :
                                 v[k].user_message = m[i].message_text}) = 1
               /\ \A k \in DOMAIN v :
                    (v[k].ai_response = m[i + 1].message_text)
                    <=> (v[k].user_message = m[i].message_text)
       /\ Tags(m) = <<"user", "assistant">> => Len(v) = 1

C13_Witness ==
  /\ History
  /\ returned.limit = 2
  /\ Tags(returned.all_messages) = <<"user", "assistant">>
  /\ Len(returned.value) = 1
  /\ returned.value[1].ai_response = returned.all_messages[2].message_text

\* C14: a user message whose next message is absent or not an assistant
\* message yields a turn with the sentinel reply; [user, user] gives two
\* turns, the later one first, and the earlier one carries the sentinel.
C14_UnansweredGetsSentinel ==
  Untruncated =>
    LET m == returned.all_messages
        v == returned.value
    IN /\ \A i \in DOMAIN m :
            ( /\ m[i].message_type = "user"
              /\ i + 1 \in DOMAIN m => m[i + 1].message_type # "assistant" )
            => \E k \in DOMAIN v :
                 /\ v[k].user_message = m[i].message_text
                 /\ v[k].ai_response = NoResponse
       /\ Tags(m) = <<"user", "user">>
            => /\ Len(v) = 2
               /\ v[1].user_message = m[2].message_text
               /\ v[2].user_message = m[1].message_text
               /\ v[2].ai_response = NoResponse

C14_Witness ==
  /\ History
  /\ returned.limit = 2
  /\ Tags(returned.all_messages) = <<"user", "user">>
  /\ Len(returned.value) = 2
  /\ returned.value[2].ai_response = NoResponse

\* C15: the user text of every turn is the text of a user-tagged message, and
\* an assistant message that does not directly follow a user message is in
\* no turn, neither as user text nor as reply.
C15_NoAssistantOnlyTurns ==
  History =>
    LET m == returned.all_messages
        v == returned.value
    IN /\ \A k \in DOMAIN v : \E i \in DOMAIN m :
            /\ m[i].message_type = "user"
            /\ m[i].message_text = v[k].user_message
       /\ \A i \in DOMAIN m :
            ( /\ m[i].message_type = "assistant"
              /\ i - 1 \in DOMAIN m => m[i - 1].message_type # "user" )
            => \A k \in DOMAIN v :
                 /\ v[k].user_message # m[i].message_text
                 /\ v[k].ai_response # m[i].message_text

C15_Witness ==
  /\ History
  /\ returned.limit = 2
  /\ Tags(returned.all_messages) = <<"assistant", "user", "assistant">>
  /\ Len(returned.value) = 1
  /\ returned.value[1].user_message = returned.all_messages[2].message_text

\* the turns of v are the most recent turns of the log m, most recent first
MostRecentFirst(v, m) ==
  LET u == UserTexts(m)
  IN /\ Len(v) <= Len(u)
     /\ \A k \in DOMAIN v : v[k].user_message = u[Len(u) + 1 - k]

\* C16 as stated: for every limit, negative ones included, the output has
\* at most limit turns, the most recent ones, most recent first.
C16_LimitRespected ==
  History => /\ Len(returned.value) <= returned.limit
             /\ MostRecentFirst(returned.value, returned.all_messages)

\* C16 amended: for every limit of 0 and above, the output has
\* min(limit, number of turns) turns, the most recent ones, most recent first.
C16_NonNegativeLimit ==
  (History /\ returned.limit >= 0)
  => LET n == Len(UserTexts(returned.all_messages))
     IN /\ Len(returned.value) <= returned.limit
        /\ Len(returned.value) = IF returned.limit < n THEN returned.limit ELSE n
        /\ MostRecentFirst(returned.value, returned.all_messages)

C16_Witness ==
  /\ History
  /\ returned.limit = 2
  /\ Len(UserTexts(returned.all_messages)) = 3
  /\ Len(returned.value) = 2
  /\ returned.value[1].user_message = returned.all_messages[3].message_text

\* C17: a read returns the customer's messages in the order they were
\* appended, none lost, also when a later append got an earlier created_at
\* (stated for logs without equal created_at values, whose order SQL fixes).
C17_RoundTrip ==
  [][(returned' # returned /\ returned'.op = "get_conversation_history")
     => LET rows == rows_of(returned'.customer_email)
        IN (\A i, j \in DOMAIN rows :
              i # j => rows[i].created_at # rows[j].created_at)
           => returned'.all_messages = [i \in DOMAIN rows |-> selected(rows[i])]]_vars

\* C18: no call changes or deletes a stored conversation row, and a read of
\* the history writes to no table.
C18_StoredMessagesImmutable ==
  [][/\ \A i \in DOMAIN conversations :
          i \in DOMAIN conversations' /\ conversations'[i] = conversations[i]
     /\ (returned' # returned /\ returned'.op = "get_conversation_history")
          => UNCHANGED <<customers, travel_bookings, conversations>>]_vars

C18_Witness ==
  /\ History
  /\ Len(conversations) = 2
  /\ conversations[1].customer_email = conversations[2].customer_email
  /\ conversations[1].message_type = conversations[2].message_type
  /\ Len(customers) = 1

\* the stored rows of a customer that are tagged user
UserRows(customer_email) ==
  {i \in DOMAIN conversations :
     /\ conversations[i].customer_email = customer_email
     /\ conversations[i].message_type = "user"}

\* C26: when limit cuts nothing, the history has exactly one turn per
\* user-tagged message of the customer: as many turns as the customer has
\* user messages stored, and the k-th turn is the k-th last user message of
\* the fetched log, with its text and its time, so none is left out and none
\* is in two turns.
C26_OneTurnPerUserMessage ==
  Untruncated =>
    LET m == returned.all_messages
        v == returned.value
        users == SelectSeq(m, LAMBDA row : row.message_type = "user")
    IN /\ Len(v) = Cardinality(UserRows(returned.customer_email))
       /\ Len(v) = Len(users)
       /\ \A k \in DOMAIN v :
            /\ v[k].user_message = users[Len(users) + 1 - k].message_text
            /\ v[k].created_at = users[Len(users) + 1 - k].created_at
       /\ \A k, l \in DOMAIN v :
            v[k].user_message = v[l].user_message => k = l

\* two user messages in a row and a reply: two turns, the answered one first
C26_Witness ==
  /\ History
  /\ returned.limit = 2
  /\ Tags(returned.all_messages) = <<"user", "user", "assistant">>
  /\ Len(returned.value) = 2
  /\ returned.value[1].user_message = returned.all_messages[2].message_text
  /\ returned.value[2].user_message = returned.all_messages[1].message_text

\* stored row j of the customer comes directly after stored row i in every
\* order that is ascending in created_at
DirectlyAfter(i, j) ==
  /\ conversations[i].customer_email = conversations[j].customer_email
  /\ conversations[i].created_at < conversations[j].created_at
  /\ \A k \in DOMAIN conversations \ {i, j} :
       conversations[k].customer_email = conversations[i].customer_email
       => \/ conversations[k].created_at < conversations[i].created_at
          \/ conversations[k].created_at > conversations[j].created_at

\* C27: a user message and the assistant message that directly follows it
\* in the customer's log make one turn also when they were stored under
\* different session ids.
C27_PairsAcrossSessions ==
  Untruncated =>
    \A i, j \in DOMAIN conversations :
      ( /\ conversations[i].customer_email = returned.customer_email
        /\ DirectlyAfter(i, j)
        /\ conversations[i].message_type = "user"
        /\ conversations[j].message_type = "assistant"
        /\ conversations[i].session_id # conversations[j].session_id )
      => \E k \in DOMAIN returned.value :
           /\ returned.value[k].user_message = conversations[i].message_text
           /\ returned.value[k].ai_response = conversations[j].message_text

\* the history holds a turn whose question was stored by session S1 and
\* whose reply was stored by session S2
C27_Witness ==
  /\ History
  /\ Len(conversations) = 2
  /\ conversations[1].session_id = S1
  /\ conversations[2].session_id = S2
  /\ Len(returned.value) = 1
  /\ returned.value[1].user_message = conversations[1].message_text
  /\ returned.value[1].ai_response = conversations[2].message_text

\* the texts stored in the table `log` with exactly this customer_email
OwnTexts(log, customer_email) ==
  {log[i].message_text :
     i \in {j \in DOMAIN log : log[j].customer_email = customer_email}}

\* every history that a read for this customer can return now
Histories(customer_email) ==
  {<<limit, pair_messages(m, limit)>> :
     limit \in Limits, m \in fetchall(customer_email)}

\* this step stored a message for a customer other than customer_email
StoredForOther(customer_email) ==
  /\ Len(conversations') = Len(conversations) + 1
  /\ conversations'[Len(conversations')].customer_email # customer_email

\* C28: the turns of a history read for a customer are made of messages
\* stored with exactly that customer's email, and storing a message for
\* another customer changes nothing in what a read for this one returns.
C28_CustomerIsolation ==
  [][/\ (returned'.op = "get_conversation_history")
          => /\ Len(returned'.all_messages) =
                  Cardinality(OwnTexts(conversations', returned'.customer_email))
             /\ \A k \in DOMAIN returned'.value :
                  /\ returned'.value[k].user_message
                       \in OwnTexts(conversations', returned'.customer_email)
                  /\ returned'.value[k].ai_response
                       \in OwnTexts(conversations', returned'.customer_email) \cup {NoResponse}
     /\ \A email \in Readers :
          StoredForOther(email) => Histories(email)' = Histories(email)]_vars

\* a history read for one customer while the log holds a message of another
C28_Witness ==
  /\ History
  /\ returned.customer_email = E1
  /\ Len(conversations) = 3
  /\ conversations[2].customer_email = E2
  /\ Len(returned.all_messages) = 2
  /\ Len(returned.value) = 1

\* the email of the customer a booking belongs to
OwnerEmail(b) == customers[travel_bookings[b].customer_id].email

\* the latest call was `op` for booking b by the booking's customer
ByOwner(call, op, b) ==
  /\ call.op = op
  /\ call.booking_id = b
  /\ call.customer_email = OwnerEmail(b)

\* C29: no call changes the status or a date of a cancelled booking; a
\* cancel of it by its customer returns the failure 'Booking is already
\* cancelled' and a reschedule of it by its customer returns the failure
\* 'Cannot reschedule a cancelled booking'.
C29_CancelledIsAbsorbing ==
  [][\A b \in DOMAIN travel_bookings :
       travel_bookings[b].status = "cancelled"
       => /\ travel_bookings'[b] = travel_bookings[b]
          /\ ByOwner(returned', "cancel_booking", b)
               => /\ ~returned'.success
                  /\ returned'.message = "Booking is already cancelled"
          /\ ByOwner(returned', "reschedule_booking", b)
               => /\ ~returned'.success
                  /\ returned'.message = "Cannot reschedule a cancelled booking"]_vars

\* a booking was rescheduled, then cancelled, and a later reschedule by its
\* customer was refused
C29_Witness ==
  /\ Len(travel_bookings) = 1
  /\ travel_bookings[1].status = "cancelled"
  /\ travel_bookings[1].departure_date = D2
  /\ ByOwner(returned, "reschedule_booking", 1)
  /\ returned.message = "Cannot reschedule a cancelled booking"

\* the call was made for an unknown booking id or with an email that is not
\* the email of the booking's customer
NotOwner(booking_id, customer_email) ==
  \/ booking_id \notin DOMAIN travel_bookings
  \/ OwnerEmail(booking_id) # customer_email

\* C30: a cancel or a reschedule called for an unknown booking id, or with
\* an email that is not the email of the booking's customer, returns the
\* failure 'Booking not found or access denied' and changes no booking.
C30_OnlyOwnerChanges ==
  [][( /\ returned'.op \in {"cancel_booking", "reschedule_booking"}
       /\ NotOwner(returned'.booking_id, returned'.customer_email) )
     => /\ ~returned'.success
        /\ returned'.message = "Booking not found or access denied"
        /\ travel_bookings' = travel_bookings]_vars

\* a registered customer asked to cancel the confirmed booking of another
\* and was refused
C30_Witness ==
  /\ Len(customers) = 2
  /\ Len(travel_bookings) = 1
  /\ travel_bookings[1].status = "confirmed"
  /\ returned.op = "cancel_booking"
  /\ returned.booking_id = 1
  /\ returned.customer_email # OwnerEmail(1)
  /\ returned.message = "Booking not found or access denied"

====
